---------------------------- MODULE Spec2Model ----------------------------
(***************************************************************************)
(* Model of the mail responder's core:                                     *)
(*   - MSGraphAPI.request (src/ms_graph.py): bearer injection, renewal on  *)
(*     401 and the bounded retry, for several callers of one gateway;      *)
(*   - the module-level provider calls of src/user.py, whose credential    *)
(*     comes from get_access_token;                                        *)
(*   - MicrosoftCalendarTool.find_available_slots (src/emailai.py);        *)
(*   - sanitize_response (src/ollama_service.py), pass by pass, on texts   *)
(*     made of the tokens its patterns tell apart;                         *)
(*   - the loops over the unread messages, main (src/user.py) and index    *)
(*     (src/app.py), with the generation calls they make, and              *)
(*     MSGraphAPI.generate_draft_response (src/ms_graph.py).               *)
(***************************************************************************)
EXTENDS Integers, Sequences, FiniteSets, TLC

(***************************************************************************)
(* Bounds of the model.                                                    *)
(***************************************************************************)
\* number of unread messages a batch loop is given
MaxEmails == 4

\* number of tokens of a text given to sanitize_response
MaxTextLen == 5

\* number of gateway operations (request, renew_token) started in one run
MaxCalls == 3
\* largest retry budget a caller passes to request
MaxRetries == 2
\* number of user.py provider operations started in one run
MaxUserOps == 3
\* number of gateway operations started in one run when threads share the gateway
MaxThreadCalls == 3
\* number of busy intervals in a call that looks at one day
MaxEvents == 2
\* number of busy intervals in a call that looks at several days
MaxSpanEvents == 1
\* largest days_ahead of a call
MaxDaysAhead == 2

\* the default of request's retries parameter
DefaultRetries == 1

Callers == {"c1", "c2"}

\* what the provider can answer to one attempt: a 2xx, a 401, another HTTP
\* error status, or no answer at all (requests raises a transport exception)
Statuses == {"200", "401", "500", "transport"}

VARIABLES
  \* ---- MSGraphAPI (src/ms_graph.py) ----
  token,                \* self.token
  user_provided_token,  \* self.user_provided_token
  issued,               \* tokens the auth provider has issued so far (1..issued)
  shared,               \* Authorization entry of the default headers dict of request
  frame,                \* per caller: the activation of request it is in
  calls,                \* gateway operations started so far
  replaced,             \* tokens that a renewal made by request has overwritten
  \* ---- user.py ----
  ACCESS_TOKEN,         \* the module global; <<>> is None
  uissued,              \* tokens acquire_token_for_client has returned to user.py
  uop,                  \* the user.py provider operation in progress
  uops,                 \* user.py operations started so far
  \* ---- MicrosoftCalendarTool.find_available_slots (src/emailai.py) ----
  events,               \* the busy intervals _run returned, in the order returned
  now,                  \* datetime.now(), in minutes since today's midnight
  weekday0,             \* today's weekday(), Monday = 0
  days_ahead,
  min_duration_minutes,
  current_date,         \* the loop's day, counted from today
  available_slots,
  epc,                  \* "loop" inside the while loop, "done" once returned
  \* ---- sanitize_response (src/ollama_service.py) ----
  raw,                  \* the text the first call was given
  text,                 \* the local variable text of the call in progress
  spc,                  \* the statement the call is at
  once,                 \* what the first call returned
  applied,              \* calls that have returned
  \* ---- main (src/user.py) and index (src/app.py) ----
  program,              \* "main" or "index"
  emails,               \* how many unread messages the loop was given
  email,                \* the loop's message, counted from 1
  bpc,                  \* the statement the loop is at
  reached,              \* messages whose processing has begun
  failed,               \* messages whose processing raised
  drafted,              \* messages for which a draft was created
  marked,               \* messages marked as read
  generation,           \* the generation call made last, <<>> before the first
  posted,               \* the draft created last, <<>> before the first
  calendar,             \* generate_draft_response: its calendar fetch, <<>> before
  returned              \* what the function returned to its caller, "" before

gwVars == <<token, user_provided_token, issued, shared, frame, calls, replaced>>
userVars == <<ACCESS_TOKEN, uissued, uop, uops>>
slotVars == <<events, now, weekday0, days_ahead, min_duration_minutes,
              current_date, available_slots, epc>>
sanVars == <<raw, text, spc, once, applied>>
batchVars == <<program, emails, email, bpc, reached, failed, drafted, marked,
               generation, posted, calendar, returned>>
vars == <<gwVars, userVars, slotVars, sanVars, batchVars>>

(***************************************************************************)
(* MSGraphAPI                                                              *)
(***************************************************************************)
\* An Authorization header entry: <<>> when the dict has none, <<t>> for
\* "Bearer t".
NoAuth == <<>>
Bearer(t) == <<t>>

IdleFrame ==
  [pc |-> "idle", hdr |-> "default", own |-> NoAuth, retries |-> 0,
   bearer |-> NoAuth, fresh |-> 0, result |-> "none",
   budget |-> 0, attempts |-> 0, renewals |-> 0,
   sent |-> <<>>, stored |-> <<>>, resps |-> <<>>, stale |-> {},
   callerAuth |-> NoAuth, renewFailed |-> FALSE]

\* The headers dict an activation works on: the caller's own dict, or the one
\* dict object that is the default of the parameter.
HeadersOf(c) == IF frame[c].hdr = "own" THEN frame[c].own ELSE shared

\* MSGraphAPI.__init__: a caller-supplied token (0) is stored as it is; without
\* one the constructor fetches the first token (1) from the auth provider.
GatewayInit ==
  /\ user_provided_token \in BOOLEAN
  /\ token = IF user_provided_token THEN 0 ELSE 1
  /\ issued = IF user_provided_token THEN 0 ELSE 1
  /\ shared = NoAuth
  /\ frame = [c \in Callers |-> IdleFrame]
  /\ calls = 0
  /\ replaced = {}

Quiescent == \A c \in Callers : frame[c].pc = "idle"

\* A caller enters request(endpoint, method, headers, retries): with its own
\* headers dict (which may already hold an Authorization entry) or with the
\* default one, and with a retry budget.
Start(c, h, o, n) ==
  /\ frame[c].pc = "idle"
  /\ calls' = calls + 1
  /\ frame' = [frame EXCEPT ![c] =
        [IdleFrame EXCEPT !.pc = "fmt", !.hdr = h,
                          !.own = IF h = "own" THEN o ELSE NoAuth,
                          !.callerAuth = IF h = "own" THEN o ELSE NoAuth,
                          !.retries = n, !.budget = n, !.stale = replaced]]
  /\ UNCHANGED <<token, user_provided_token, issued, shared, replaced>>

\* f"Bearer {self.token}" is evaluated
Format(c) ==
  /\ frame[c].pc = "fmt"
  /\ frame' = [frame EXCEPT ![c].bearer = Bearer(token), ![c].pc = "update"]
  /\ UNCHANGED <<token, user_provided_token, issued, shared, calls, replaced>>

\* (variant: headers.setdefault, which keeps an Authorization entry the dict
\* already holds)
UpdateHeaders_setdefault(c) ==
  /\ frame[c].pc = "update"
  /\ IF frame[c].hdr = "own"
       THEN /\ frame' = [frame EXCEPT
                  ![c].own = IF @ = NoAuth THEN frame[c].bearer ELSE @,
                  ![c].pc = "send"]
            /\ UNCHANGED shared
       ELSE /\ shared' = IF shared = NoAuth THEN frame[c].bearer ELSE shared
            /\ frame' = [frame EXCEPT ![c].pc = "send"]
  /\ UNCHANGED <<token, user_provided_token, issued, calls, replaced>>

\* headers.update({"Authorization": ...}) writes into the dict
UpdateHeaders(c) ==
  /\ frame[c].pc = "update"
  /\ IF frame[c].hdr = "own"
       THEN /\ frame' = [frame EXCEPT ![c].own = frame[c].bearer, ![c].pc = "send"]
            /\ UNCHANGED shared
       ELSE /\ shared' = frame[c].bearer
            /\ frame' = [frame EXCEPT ![c].pc = "send"]
  /\ UNCHANGED <<token, user_provided_token, issued, calls, replaced>>

\* requests.request(method, url, headers=headers, ...) reads the dict and
\* sends the attempt
Send(c) ==
  /\ frame[c].pc = "send"
  /\ frame' = [frame EXCEPT
        ![c].sent = Append(@, HeadersOf(c)),
        ![c].stored = Append(@, token),
        ![c].attempts = @ + 1,
        ![c].pc = "wait"]
  /\ UNCHANGED <<token, user_provided_token, issued, shared, calls, replaced>>

\* (variant: the retries > 0 test is missing)
AfterResponse_NoBudget(c, s) ==
  IF s = "200" THEN [pc |-> "done", result |-> "response"]
  ELSE IF s = "401"
    THEN IF user_provided_token
           THEN [pc |-> "done", result |-> "None"]
           ELSE [pc |-> "refresh", result |-> "none"]
  ELSE [pc |-> "done", result |-> "None"]

\* (variant: the user_provided_token test is missing)
AfterResponse_RenewForeign(c, s) ==
  IF s = "200" THEN [pc |-> "done", result |-> "response"]
  ELSE IF s = "401" /\ frame[c].retries > 0
    THEN [pc |-> "refresh", result |-> "none"]
  ELSE [pc |-> "done", result |-> "None"]

\* (variant: every HTTP error status is handled like a 401)
AfterResponse_AnyStatus(c, s) ==
  IF s = "200" THEN [pc |-> "done", result |-> "response"]
  ELSE IF s \in {"401", "500"} /\ frame[c].retries > 0
    THEN IF user_provided_token
           THEN [pc |-> "done", result |-> "None"]
           ELSE [pc |-> "refresh", result |-> "none"]
  ELSE [pc |-> "done", result |-> "None"]

\* where request goes after the provider's answer s
AfterResponse(c, s) ==
  IF s = "200" THEN [pc |-> "done", result |-> "response"]
  ELSE IF s = "401" /\ frame[c].retries > 0
    THEN IF user_provided_token
           THEN [pc |-> "done", result |-> "None"]
           ELSE [pc |-> "refresh", result |-> "none"]
  ELSE [pc |-> "done", result |-> "None"]

\* the provider answers, raise_for_status and the except clauses run
Respond(c, s) ==
  /\ frame[c].pc = "wait"
  /\ frame' = [frame EXCEPT
        ![c].resps = Append(@, s),
        ![c].pc = AfterResponse(c, s).pc,
        ![c].result = AfterResponse(c, s).result]
  /\ UNCHANGED <<token, user_provided_token, issued, shared, calls, replaced>>

\* (variant: a failed renewal is caught and the request retried with the
\* token it has)
Refresh_Swallow(c, ok) ==
  /\ frame[c].pc = "refresh"
  /\ IF ok
       THEN /\ issued' = issued + 1
            /\ frame' = [frame EXCEPT ![c].renewals = @ + 1,
                                      ![c].fresh = issued + 1,
                                      ![c].pc = "assign"]
       ELSE /\ issued' = issued
            /\ frame' = [frame EXCEPT ![c].renewals = @ + 1,
                                      ![c].renewFailed = TRUE,
                                      ![c].retries = @ - 1,
                                      ![c].pc = "fmt"]
  /\ UNCHANGED <<token, user_provided_token, shared, calls, replaced>>

\* _refresh_token_if_expired calls _get_token: the auth provider issues a new
\* token, or fails and the exception leaves request through the except clause
\* that called it
Refresh(c, ok) ==
  /\ frame[c].pc = "refresh"
  /\ IF ok
       THEN /\ issued' = issued + 1
            /\ frame' = [frame EXCEPT ![c].renewals = @ + 1,
                                      ![c].fresh = issued + 1,
                                      ![c].pc = "assign"]
       ELSE /\ issued' = issued
            /\ frame' = [frame EXCEPT ![c].renewals = @ + 1,
                                      ![c].renewFailed = TRUE,
                                      ![c].pc = "done",
                                      ![c].result = "raised"]
  /\ UNCHANGED <<token, user_provided_token, shared, calls, replaced>>

\* (variant: request calls itself with retries, not retries - 1)
Assign_SameBudget(c) ==
  /\ frame[c].pc = "assign"
  /\ token' = frame[c].fresh
  /\ replaced' = replaced \cup {token}
  /\ frame' = [frame EXCEPT ![c].pc = "fmt"]
  /\ UNCHANGED <<user_provided_token, issued, shared, calls>>

\* self.token = <the new token>, then request calls itself with retries - 1
\* and the same headers dict
Assign(c) ==
  /\ frame[c].pc = "assign"
  /\ token' = frame[c].fresh
  /\ replaced' = replaced \cup {token}
  /\ frame' = [frame EXCEPT ![c].retries = @ - 1, ![c].pc = "fmt"]
  /\ UNCHANGED <<user_provided_token, issued, shared, calls>>

\* request has returned or raised: its activation is gone
Return(c) ==
  /\ frame[c].pc = "done"
  /\ frame' = [frame EXCEPT ![c] = IdleFrame]
  /\ UNCHANGED <<token, user_provided_token, issued, shared, calls, replaced>>

\* MSGraphAPI.renew_token
renew_token(ok) ==
  /\ calls' = calls + 1
  /\ IF ok
       THEN /\ issued' = issued + 1
            /\ token' = issued + 1
       ELSE UNCHANGED <<issued, token>>
  /\ UNCHANGED <<user_provided_token, shared, frame, replaced>>

\* get_token: return self.token
get_token ==
  /\ calls' = calls + 1
  /\ UNCHANGED <<token, user_provided_token, issued, shared, frame, replaced>>

\* the Authorization values a caller may bring in its own dict
CallerAuth == {NoAuth} \cup {Bearer(t) : t \in 0..issued}

RequestStep(c) ==
  \/ Format(c)
  \/ UpdateHeaders(c)
  \/ Send(c)
  \/ \E s \in Statuses : Respond(c, s)
  \/ \E ok \in BOOLEAN : Refresh(c, ok)
  \/ Assign(c)
  \/ Return(c)

\* One flow of control: an operation starts only when none is in progress.
SeqStart ==
  /\ Quiescent
  /\ calls < MaxCalls
  /\ \E c \in Callers, h \in {"default", "own"}, n \in 0..MaxRetries :
       \E o \in CallerAuth : Start(c, h, o, n)

SeqRenew == Quiescent /\ calls < MaxCalls /\ \E ok \in BOOLEAN : renew_token(ok)

SeqGetToken == Quiescent /\ calls < MaxCalls /\ get_token

\* Several threads use the gateway through its public methods, which call
\* request with the default budget and either no headers argument or a dict
\* of their own without an Authorization entry: operations start at any time.
ThreadStart ==
  /\ calls < MaxThreadCalls
  /\ \E c \in Callers, h \in {"default", "own"} : Start(c, h, NoAuth, DefaultRetries)

ThreadRenew == calls < MaxThreadCalls /\ \E ok \in BOOLEAN : renew_token(ok)

(***************************************************************************)
(* user.py                                                                 *)
(***************************************************************************)
UserOps == {"read_emails", "check_calendar", "create_email_draft",
            "mark_user_email_as_read"}

IdleOp == [pc |-> "idle", op |-> "read_emails", tok |-> 0, result |-> "none",
           attempts |-> 0, renewals |-> 0, resps |-> <<>>]

UserInit ==
  /\ ACCESS_TOKEN = <<>>
  /\ uissued = 0
  /\ uop = IdleOp
  /\ uops = 0

\* one of the four functions is called
UserCall(op) ==
  /\ uop.pc \in {"idle", "done"}
  /\ uops < MaxUserOps
  /\ uops' = uops + 1
  /\ uop' = [IdleOp EXCEPT !.pc = "token", !.op = op]
  /\ UNCHANGED <<ACCESS_TOKEN, uissued>>

\* token = get_access_token(): the cached global when there is one, else a
\* token acquired from the auth provider, which may fail
get_access_token(ok) ==
  /\ uop.pc = "token"
  /\ IF ACCESS_TOKEN # <<>>
       THEN /\ uop' = [uop EXCEPT !.tok = ACCESS_TOKEN[1], !.pc = "send"]
            /\ UNCHANGED <<ACCESS_TOKEN, uissued>>
       ELSE IF ok
         THEN /\ uissued' = uissued + 1
              /\ ACCESS_TOKEN' = <<uissued + 1>>
              /\ uop' = [uop EXCEPT !.tok = uissued + 1, !.pc = "send"]
         ELSE /\ uop' = [uop EXCEPT !.pc = "done", !.result = "raised"]
              /\ UNCHANGED <<ACCESS_TOKEN, uissued>>
  /\ UNCHANGED uops

\* requests.get / post / patch with the token in the header
UserSend ==
  /\ uop.pc = "send"
  /\ uop' = [uop EXCEPT !.attempts = @ + 1, !.pc = "wait"]
  /\ UNCHANGED <<ACCESS_TOKEN, uissued, uops>>

\* the status check of the function: anything but success raises
UserRespond(s) ==
  /\ uop.pc = "wait"
  /\ uop' = [uop EXCEPT !.resps = Append(@, s), !.pc = "done",
                        !.result = IF s = "200" THEN "response" ELSE "raised"]
  /\ UNCHANGED <<ACCESS_TOKEN, uissued, uops>>

(***************************************************************************)
(* MicrosoftCalendarTool.find_available_slots                              *)
(*                                                                         *)
(* Instants are whole minutes counted from today's midnight; a day is its  *)
(* number of days after today.  The provider's dateTime strings all have   *)
(* one format, for which the order of the strings is the order of the      *)
(* instants they parse to.                                                 *)
(***************************************************************************)
\* working_hours = {"start_hour": 9, "end_hour": 17}
start_hour == 9
end_hour == 17

MinutesPerDay == 24 * 60
At(d, h, m) == d * MinutesPerDay + h * 60 + m
DateOf(t) == t \div MinutesPerDay
Max(a, b) == IF a >= b THEN a ELSE b

\* current_date.weekday() of the loop's day d
WeekdayOf(d) == (weekday0 + d) % 7

\* (variant: Saturday counts as a working day)
IsWeekend_SundayOnly(d) == WeekdayOf(d) >= 6

\* current_date.weekday() >= 5
IsWeekend(d) == WeekdayOf(d) >= 5

\* datetime(year, month, day, working_hours["end_hour"])
DayEnd(d) == At(d, end_hour, 0)

\* datetime(year, month, day, working_hours["start_hour"]), moved to now when
\* now lies strictly inside the working hours of that day
DayStart(d) ==
  IF now > At(d, start_hour, 0) /\ now < DayEnd(d) THEN now ELSE At(d, start_hour, 0)

\* the events whose start falls on the loop's day
DayEvents(d) == SelectSeq(events, LAMBDA e : DateOf(e.start) = d)

\* list.sort(key=start): stable, ascending by start
RECURSIVE InsertByStart(_, _)
InsertByStart(sorted, e) ==
  IF sorted = <<>> THEN <<e>>
  ELSE IF Head(sorted).start <= e.start
    THEN <<Head(sorted)>> \o InsertByStart(Tail(sorted), e)
    ELSE <<e>> \o sorted

RECURSIVE SortByStart(_)
SortByStart(q) ==
  IF q = <<>> THEN <<>>
  ELSE InsertByStart(SortByStart(SubSeq(q, 1, Len(q) - 1)), q[Len(q)])

Slot(a, b) == [start |-> a, end |-> b, duration_minutes |-> b - a]

\* (variant: min where the code has max)
NextCheckTime_Min(check_time, e) == IF check_time <= e.end THEN check_time ELSE e.end

\* check_time = max(check_time, event_end)
NextCheckTime(check_time, e) == Max(check_time, e.end)

\* (variant: a gap of exactly min_duration_minutes is dropped)
LongEnough_Strict(duration) == duration > min_duration_minutes

\* duration >= min_duration_minutes
LongEnough(duration) == duration >= min_duration_minutes

\* the for loop over the day's sorted events: the slots it appends and the
\* check_time it ends with
RECURSIVE Sweep(_, _, _)
Sweep(evs, check_time, slots) ==
  IF evs = <<>> THEN [check_time |-> check_time, slots |-> slots]
  ELSE LET e == Head(evs)
           found == IF LongEnough(e.start - check_time)
                      THEN Append(slots, Slot(check_time, e.start))
                      ELSE slots
       IN Sweep(Tail(evs), NextCheckTime(check_time, e), found)

\* (variant: nothing is appended after the last event)
SlotsOfDay_NoTrailing(d) ==
  Sweep(SortByStart(DayEvents(d)), DayStart(d), <<>>).slots

\* what one pass of the while loop appends for a working day
SlotsOfDay(d) ==
  LET swept == Sweep(SortByStart(DayEvents(d)), DayStart(d), <<>>)
  IN IF LongEnough(DayEnd(d) - swept.check_time)
       THEN Append(swept.slots, Slot(swept.check_time, DayEnd(d)))
       ELSE swept.slots

\* weekend: the day is skipped
SkipWeekend ==
  /\ epc = "loop" /\ current_date < days_ahead
  /\ IsWeekend(current_date)
  /\ current_date' = current_date + 1
  /\ UNCHANGED <<events, now, weekday0, days_ahead, min_duration_minutes,
                 available_slots, epc>>

\* now is past the end of the day's working hours: the day is skipped
SkipPast ==
  /\ epc = "loop" /\ current_date < days_ahead
  /\ ~IsWeekend(current_date)
  /\ now > DayEnd(current_date)
  /\ current_date' = current_date + 1
  /\ UNCHANGED <<events, now, weekday0, days_ahead, min_duration_minutes,
                 available_slots, epc>>

\* the day's events are filtered, sorted and swept
SweepDay ==
  /\ epc = "loop" /\ current_date < days_ahead
  /\ ~IsWeekend(current_date)
  /\ ~(now > DayEnd(current_date))
  /\ available_slots' = available_slots \o SlotsOfDay(current_date)
  /\ current_date' = current_date + 1
  /\ UNCHANGED <<events, now, weekday0, days_ahead, min_duration_minutes, epc>>

\* current_date has reached end_date: return available_slots
ReturnSlots ==
  /\ epc = "loop" /\ ~(current_date < days_ahead)
  /\ epc' = "done"
  /\ UNCHANGED <<events, now, weekday0, days_ahead, min_duration_minutes,
                 current_date, available_slots>>

\* The inputs of a call.  Times of day that busy intervals start and end at:
\* before, at the edges of, inside and after the working hours.
DayClock == {At(0, 8, 0), At(0, 9, 0), At(0, 10, 0), At(0, 10, 30),
             At(0, 14, 0), At(0, 15, 0), At(0, 16, 0), At(0, 17, 0),
             At(0, 18, 0)}
SpanClock == {At(0, 8, 0), At(0, 10, 0), At(0, 18, 0)}
NowClock == {At(0, 8, 0), At(0, 12, 0), At(0, 17, 0), At(0, 18, 0)}
Durations == {30, 60}

Interval(a, b) == [start |-> a, end |-> b]
Lists(S, n) == UNION {[1..k -> S] : k \in 0..n}

\* busy intervals of today, start <= end
DayIntervals ==
  {iv \in {Interval(a, b) : a \in DayClock, b \in DayClock} : iv.start <= iv.end}

\* busy intervals that start on some day up to the horizon and end on that
\* day or the next one, start <= end
SpanIntervals ==
  LET pts == {d * MinutesPerDay + t : d \in 0..MaxDaysAhead, t \in SpanClock}
  IN {iv \in {Interval(a, b) : a \in pts, b \in pts} :
        /\ iv.start <= iv.end
        /\ DateOf(iv.end) <= DateOf(iv.start) + 1
        /\ DateOf(iv.start) < MaxDaysAhead}

\* a call that looks at today, a Monday
DayCall ==
  /\ weekday0 = 0
  /\ days_ahead = 1
  /\ now \in NowClock
  /\ min_duration_minutes \in Durations
  /\ events \in Lists(DayIntervals, MaxEvents)

\* a call that looks at several days, starting on any weekday
SpanCall ==
  /\ weekday0 \in 0..6
  /\ days_ahead \in 0..MaxDaysAhead
  /\ now \in {At(0, 8, 0), At(0, 12, 0), At(0, 18, 0)}
  /\ min_duration_minutes = 30
  /\ events \in Lists(SpanIntervals, MaxSpanEvents)

SlotInit ==
  /\ DayCall \/ SpanCall
  /\ current_date = 0
  /\ available_slots = <<>>
  /\ epc = "loop"

\* no call of find_available_slots is made
NoSlotCall ==
  /\ events = <<>> /\ now = 0 /\ weekday0 = 0 /\ days_ahead = 0
  /\ min_duration_minutes = 30
  /\ current_date = 0 /\ available_slots = <<>> /\ epc = "done"

\* no gateway is in use
NoGateway ==
  /\ user_provided_token = FALSE /\ token = 1 /\ issued = 1
  /\ shared = NoAuth /\ frame = [c \in Callers |-> IdleFrame]
  /\ calls = 0 /\ replaced = {}

(***************************************************************************)
(* sanitize_response (src/ollama_service.py, the same in src/user.py).     *)
(* A text is a sequence of tokens, one for each piece of text that the     *)
(* patterns of sanitize_response tell apart: a dash, a blank, a newline,   *)
(* the opening fence, the closing fence, a greeting word, and any other    *)
(* run of characters.  Each pattern is matched as re matches it: greedy,   *)
(* leftmost, "." never matching a newline, "^" and "$" at line boundaries  *)
(* only under re.MULTILINE.                                                *)
(***************************************************************************)
\* "fence-email" is the opening fence (three backquotes and the word email),
\* "fence" the closing one (three backquotes), "nl" the newline
Tokens == {"-", " ", "nl", "fence-email", "fence", "Hi", "x"}

\* \s
Space == {" ", "nl"}

\* .
NotNewline == Tokens \ {"nl"}

\* the first position at or after i whose token is not in S: where a greedy
\* S* that starts at i ends
RECURSIVE RunEnd(_, _, _)
RunEnd(t, i, S) ==
  IF i <= Len(t) /\ t[i] \in S THEN RunEnd(t, i + 1, S) ELSE i

\* ^ under re.MULTILINE
LineStart(t, i) == i = 1 \/ t[i - 1] = "nl"

\* The match of ^--+\s*\n.*$ (re.MULTILINE) that starts at i: the position of
\* its last token, 0 when there is none.  \s* gives back up to the last
\* newline of the blank run after the dashes; .* takes the rest of the line
\* that follows that newline, and no more.
SignatureMatch(t, i) ==
  IF ~(LineStart(t, i) /\ i + 1 <= Len(t) /\ t[i] = "-" /\ t[i + 1] = "-")
    THEN 0
    ELSE LET p == RunEnd(t, i, {"-"})
             w == RunEnd(t, p, Space)
             nls == {q \in p..(w - 1) : t[q] = "nl"}
         IN IF nls = {} THEN 0
            ELSE LET q == CHOOSE q \in nls : \A r \in nls : r <= q
                 IN RunEnd(t, q + 1, NotNewline) - 1

\* re.sub(r"^--+\s*\n.*$", "", text, flags=re.MULTILINE), from position i on
RECURSIVE SubSignature(_, _)
SubSignature(t, i) ==
  IF i > Len(t) THEN <<>>
  ELSE LET e == SignatureMatch(t, i)
       IN IF e # 0 THEN SubSignature(t, e + 1)
          ELSE <<t[i]>> \o SubSignature(t, i + 1)

\* re.sub(r"^```email\s*", "", text): only at the start of the text
SubOpeningFence(t) ==
  IF t # <<>> /\ t[1] = "fence-email"
    THEN SubSeq(t, RunEnd(t, 2, Space), Len(t))
    ELSE t

\* re.sub(r"```\s*$", "", text): a fence with nothing but blanks and newlines
\* between it and the end of the text
SubClosingFence(t) ==
  LET ends == {i \in 1..Len(t) : t[i] = "fence" /\ RunEnd(t, i + 1, Space) > Len(t)}
  IN IF ends = {} THEN t
     ELSE SubSeq(t, 1, (CHOOSE i \in ends : \A k \in ends : i <= k) - 1)

\* text.split("\n")
RECURSIVE SplitLines(_)
SplitLines(t) ==
  LET e == RunEnd(t, 1, NotNewline)
  IN IF e > Len(t) THEN <<t>>
     ELSE <<SubSeq(t, 1, e - 1)>> \o SplitLines(SubSeq(t, e + 1, Len(t)))

\* "\n".join(cleaned_lines)
RECURSIVE JoinLines(_)
JoinLines(ls) ==
  IF ls = <<>> THEN <<>>
  ELSE IF Len(ls) = 1 THEN ls[1]
  ELSE ls[1] \o <<"nl">> \o JoinLines(Tail(ls))

\* re.match(r"^(dear|hello|hi|...)", line, re.IGNORECASE)
is_greeting(line) == line # <<>> /\ line[1] = "Hi"

\* (variant: the first greeting line is dropped like the later ones)
RECURSIVE cleaned_lines_NoGreeting(_, _)
cleaned_lines_NoGreeting(lines, seen_greeting) ==
  IF lines = <<>> THEN <<>>
  ELSE IF is_greeting(Head(lines))
    THEN cleaned_lines_NoGreeting(Tail(lines), TRUE)
    ELSE <<Head(lines)>> \o cleaned_lines_NoGreeting(Tail(lines), seen_greeting)

\* the for loop over lines
RECURSIVE cleaned_lines(_, _)
cleaned_lines(lines, seen_greeting) ==
  IF lines = <<>> THEN <<>>
  ELSE IF is_greeting(Head(lines))
    THEN IF seen_greeting
           THEN cleaned_lines(Tail(lines), TRUE)
           ELSE <<Head(lines)>> \o cleaned_lines(Tail(lines), TRUE)
    ELSE <<Head(lines)>> \o cleaned_lines(Tail(lines), seen_greeting)

\* the whole function
sanitize_response(t) ==
  JoinLines(cleaned_lines(SplitLines(
    SubClosingFence(SubOpeningFence(SubSignature(t, 1)))), FALSE))

\* text = re.sub(r"^--+\s*\n.*$", "", text, flags=re.MULTILINE)
StripSignature ==
  /\ spc = "signature"
  /\ text' = SubSignature(text, 1)
  /\ spc' = "opening"
  /\ UNCHANGED <<raw, once, applied>>

\* text = re.sub(r"^```email\s*", "", text)
StripOpeningFence ==
  /\ spc = "opening"
  /\ text' = SubOpeningFence(text)
  /\ spc' = "closing"
  /\ UNCHANGED <<raw, once, applied>>

\* text = re.sub(r"```\s*$", "", text)
StripClosingFence ==
  /\ spc = "closing"
  /\ text' = SubClosingFence(text)
  /\ spc' = "greetings"
  /\ UNCHANGED <<raw, once, applied>>

\* the greeting loop and the return
DedupGreetings ==
  /\ spc = "greetings"
  /\ text' = JoinLines(cleaned_lines(SplitLines(text), FALSE))
  /\ spc' = "returned"
  /\ applied' = applied + 1
  /\ once' = IF applied = 0 THEN text' ELSE once
  /\ UNCHANGED raw

\* sanitize_response is called on what it returned
SanitizeAgain ==
  /\ spc = "returned" /\ applied = 1
  /\ spc' = "signature"
  /\ UNCHANGED <<raw, text, once, applied>>

\* the texts of at most n tokens
Texts(n) == UNION {[1..k -> Tokens] : k \in 0..n}

SanitizeInit ==
  /\ raw \in Texts(MaxTextLen)
  /\ text = raw
  /\ spc = "signature"
  /\ once = <<>>
  /\ applied = 0

\* no call of sanitize_response is made
NoSanitizeCall ==
  /\ raw = <<>> /\ text = <<>> /\ spc = "returned" /\ once = <<>> /\ applied = 2

(***************************************************************************)
(* The generation calls and the loops over the unread messages.            *)
(***************************************************************************)
\* what the Generation Service does with a request: it answers with text,
\* does not answer, answers with an HTTP error status, refuses the connection
Services == {"text", "timeout", "http_error", "refused"}

\* the exception requests raises inside generate_text for each of them
RequestException(b) ==
  CASE b = "timeout" -> "requests.Timeout"
    [] b = "http_error" -> "requests.HTTPError"
    [] b = "refused" -> "requests.ConnectionError"

\* str.strip(): blanks and newlines are taken off both ends
RECURSIVE StripRight(_)
StripRight(t) ==
  IF t # <<>> /\ t[Len(t)] \in Space THEN StripRight(SubSeq(t, 1, Len(t) - 1))
  ELSE t

Strip(t) == StripRight(SubSeq(t, RunEnd(t, 1, Space), Len(t)))

\* str.replace("\n", "<br>")
Br(t) == [i \in 1..Len(t) |-> IF t[i] = "nl" THEN "<br>" ELSE t[i]]

\* The texts the Generation Service answers with: nothing, plain text of one
\* and of two lines, text with a blank before it, a fenced text, a repeated
\* greeting, a signature.
Replies ==
  {<<>>,
   <<"x">>,
   <<"x", "nl", "x">>,
   <<" ", "x">>,
   <<"fence-email", "nl", "x", "nl", "fence">>,
   <<"Hi", "nl", "Hi", "nl", "x">>,
   <<"x", "nl", "-", "-", "nl", "x">>}

\* generate_text: requests.post(url, json=payload, timeout=15) and
\* raise_for_status() inside try, then sanitize_response of the stripped
\* answer; every requests.RequestException is answered by
\* raise RuntimeError("Failed to generate text with Ollama"), which Python
\* chains to the exception being handled (context)
generate_text(b, reply) ==
  IF b = "text"
    THEN [kind |-> "returned", type |-> "str", message |-> "", context |-> "",
          text |-> sanitize_response(Strip(reply))]
    ELSE [kind |-> "raised", type |-> "RuntimeError",
          message |-> "Failed to generate text with Ollama",
          context |-> RequestException(b), text |-> <<>>]

\* generate_draft: requests.post without timeout, no raise_for_status, then
\* response.json()["response"] as it is
generate_draft(b, reply) ==
  CASE b = "text" ->
         [kind |-> "returned", type |-> "str", message |-> "", context |-> "",
          text |-> reply]
    [] b = "timeout" ->
         [kind |-> "hangs", type |-> "", message |-> "", context |-> "",
          text |-> <<>>]
    [] b = "http_error" ->
         [kind |-> "raised", type |-> "KeyError", message |-> "response",
          context |-> "", text |-> <<>>]
    [] b = "refused" ->
         [kind |-> "raised", type |-> "requests.ConnectionError", message |-> "",
          context |-> "", text |-> <<>>]

\* for email in emails: the loop moves to the next message, or is over
NextEmail ==
  IF email < emails
    THEN /\ email' = email + 1
         /\ reached' = reached \cup {email + 1}
         /\ bpc' = IF program = "main" THEN "fetch" ELSE "generate"
         /\ UNCHANGED returned
    ELSE /\ bpc' = "end"
         /\ returned' = IF program = "main" THEN "None" ELSE "page"
         /\ UNCHANGED <<email, reached>>

\* An exception leaves the loop.  main has one try around the whole loop, whose
\* except clause prints and returns; index and generate_draft_response have
\* none, the exception leaves the function.
Raise ==
  /\ failed' = failed \cup {email}
  /\ bpc' = "end"
  /\ returned' = IF program = "main" THEN "None" ELSE "raised"
  /\ UNCHANGED <<email, reached>>

\* generate_user_draft_response: the GET of the message
FetchEmail(ok) ==
  /\ program = "main" /\ bpc = "fetch"
  /\ IF ok THEN bpc' = "generate" /\ UNCHANGED <<email, reached, failed, returned>>
           ELSE Raise
  /\ UNCHANGED <<program, emails, drafted, marked, generation, posted, calendar>>

\* MSGraphAPI.generate_draft_response: self.request for the message; None
\* makes the method return None
FetchMessage(ok) ==
  /\ program = "generate_draft_response" /\ bpc = "fetch"
  /\ IF ok THEN bpc' = "calendar" /\ UNCHANGED <<failed, returned>>
           ELSE /\ bpc' = "end"
                /\ failed' = failed \cup {email}
                /\ returned' = "None"
  /\ UNCHANGED <<program, emails, email, reached, drafted, marked, generation,
                 posted, calendar>>

\* MSGraphAPI.generate_draft_response: self.request for the calendar view;
\* calendar_events is the answer's value, and [] when request returned None
FetchCalendar(ok) ==
  /\ program = "generate_draft_response" /\ bpc = "calendar"
  /\ calendar' = <<[fetched |-> ok,
                    calendar_events |-> IF ok THEN "value" ELSE "[]"]>>
  /\ bpc' = "generate"
  /\ UNCHANGED <<program, emails, email, reached, failed, drafted, marked,
                 generation, posted, returned>>

\* draft = generate_text(...) in main and in generate_draft_response,
\* reply = generate_draft(...) in index
Generate(b, reply) ==
  /\ bpc = "generate"
  /\ b = "text" \/ reply = <<>>
  /\ LET outcome == IF program = "index" THEN generate_draft(b, reply)
                                         ELSE generate_text(b, reply)
     IN /\ generation' = <<[call |-> IF program = "index" THEN "generate_draft"
                                                          ELSE "generate_text",
                            service |-> b,
                            raw |-> reply,
                            outcome |-> outcome]>>
        /\ CASE outcome.kind = "returned" ->
                  bpc' = "create" /\ UNCHANGED <<email, reached, failed, returned>>
             [] outcome.kind = "raised" -> Raise
             [] outcome.kind = "hangs" ->
                  bpc' = "hung" /\ UNCHANGED <<email, reached, failed, returned>>
  /\ UNCHANGED <<program, emails, drafted, marked, posted, calendar>>

\* the draft body sent to the provider: main and generate_draft_response send
\* draft.replace("\n", "<br>"), index sends reply
Body ==
  [email |-> email,
   raw |-> generation[1].raw,
   body |-> IF program = "index" THEN generation[1].outcome.text
                                 ELSE Br(generation[1].outcome.text)]

\* (variant: the status of the answer is not looked at)
CreateDraft_Unchecked(ok) ==
  /\ program \in {"main", "index"} /\ bpc = "create"
  /\ drafted' = IF ok THEN drafted \cup {email} ELSE drafted
  /\ posted' = IF ok THEN <<Body>> ELSE posted
  /\ IF program = "main"
       THEN bpc' = "mark" /\ UNCHANGED <<email, reached, returned>>
       ELSE NextEmail
  /\ UNCHANGED <<program, emails, marked, generation, calendar, failed>>

\* create_email_draft raises unless the status is 200 or 201; create_draft
\* raises when the createReply answer has no id and does not look at the
\* answer to its PATCH.  index then appends to drafts and goes on.
CreateDraft(ok) ==
  /\ program \in {"main", "index"} /\ bpc = "create"
  /\ IF ok
       THEN /\ drafted' = drafted \cup {email}
            /\ posted' = <<Body>>
            /\ IF program = "main"
                 THEN bpc' = "mark" /\ UNCHANGED <<email, reached, returned>>
                 ELSE NextEmail
            /\ UNCHANGED failed
       ELSE Raise /\ UNCHANGED <<drafted, posted>>
  /\ UNCHANGED <<program, emails, marked, generation, calendar>>

\* MSGraphAPI.generate_draft_response: self.request("me/messages", "POST");
\* draft_text is returned when the answer is truthy, None otherwise
PostDraft(ok) ==
  /\ program = "generate_draft_response" /\ bpc = "create"
  /\ bpc' = "end"
  /\ IF ok
       THEN /\ drafted' = drafted \cup {email}
            /\ posted' = <<Body>>
            /\ returned' = "draft_text"
            /\ UNCHANGED failed
       ELSE /\ failed' = failed \cup {email}
            /\ returned' = "None"
            /\ UNCHANGED <<drafted, posted>>
  /\ UNCHANGED <<program, emails, email, reached, marked, generation, calendar>>

\* mark_user_email_as_read raises unless the status is 200 or 201
MarkRead(ok) ==
  /\ program = "main" /\ bpc = "mark"
  /\ IF ok THEN marked' = marked \cup {email} /\ NextEmail /\ UNCHANGED failed
           ELSE Raise /\ UNCHANGED marked
  /\ UNCHANGED <<program, emails, drafted, generation, posted, calendar>>

\* the loop is entered with a list of unread messages that is not empty;
\* generate_draft_response is called for one message
BatchInit ==
  /\ program \in {"main", "index", "generate_draft_response"}
  /\ emails \in 1..MaxEmails
  /\ program = "generate_draft_response" => emails = 1
  /\ email = 1
  /\ bpc = IF program = "index" THEN "generate" ELSE "fetch"
  /\ reached = {1}
  /\ failed = {} /\ drafted = {} /\ marked = {}
  /\ generation = <<>>
  /\ posted = <<>>
  /\ calendar = <<>>
  /\ returned = ""

\* no loop is run
NoBatch ==
  /\ program = "main" /\ emails = 0 /\ email = 0 /\ bpc = "end"
  /\ reached = {} /\ failed = {} /\ drafted = {} /\ marked = {}
  /\ generation = <<>> /\ posted = <<>> /\ calendar = <<>> /\ returned = ""

(***************************************************************************)
(* Specifications                                                          *)
(***************************************************************************)
Init == GatewayInit /\ UserInit /\ NoSlotCall /\ NoSanitizeCall /\ NoBatch

\* the gateway used from one flow of control
Next ==
  \/ SeqStart /\ UNCHANGED <<userVars, slotVars, sanVars, batchVars>>
  \/ SeqRenew /\ UNCHANGED <<userVars, slotVars, sanVars, batchVars>>
  \/ SeqGetToken /\ UNCHANGED <<userVars, slotVars, sanVars, batchVars>>
  \/ \E c \in Callers : RequestStep(c) /\ UNCHANGED <<userVars, slotVars, sanVars, batchVars>>

Spec == Init /\ [][Next]_vars

\* the same, where a call that has begun goes on: the provider answers every
\* attempt (with a status or a transport error) and the interpreter runs on
SpecLive == Init /\ [][Next]_vars /\ WF_gwVars(\E c \in Callers : RequestStep(c))

\* the gateway used from several threads
NextThreads ==
  \/ ThreadStart /\ UNCHANGED <<userVars, slotVars, sanVars, batchVars>>
  \/ ThreadRenew /\ UNCHANGED <<userVars, slotVars, sanVars, batchVars>>
  \/ \E c \in Callers : RequestStep(c) /\ UNCHANGED <<userVars, slotVars, sanVars, batchVars>>

SpecThreads == Init /\ [][NextThreads]_vars

\* the provider operations of user.py
NextUser ==
  \/ \E op \in UserOps : UserCall(op) /\ UNCHANGED <<gwVars, slotVars, sanVars, batchVars>>
  \/ \E ok \in BOOLEAN : get_access_token(ok) /\ UNCHANGED <<gwVars, slotVars, sanVars, batchVars>>
  \/ UserSend /\ UNCHANGED <<gwVars, slotVars, sanVars, batchVars>>
  \/ \E s \in Statuses : UserRespond(s) /\ UNCHANGED <<gwVars, slotVars, sanVars, batchVars>>

SpecUser == Init /\ [][NextUser]_vars

\* find_available_slots
InitSlots ==
  NoGateway /\ UserInit /\ SlotInit /\ NoSanitizeCall /\ NoBatch

NextSlots ==
  \/ SkipWeekend /\ UNCHANGED <<gwVars, userVars, sanVars, batchVars>>
  \/ SkipPast /\ UNCHANGED <<gwVars, userVars, sanVars, batchVars>>
  \/ SweepDay /\ UNCHANGED <<gwVars, userVars, sanVars, batchVars>>
  \/ ReturnSlots /\ UNCHANGED <<gwVars, userVars, sanVars, batchVars>>

SpecSlots == InitSlots /\ [][NextSlots]_vars

\* sanitize_response, called on a text and then on its own result
InitSanitize ==
  NoGateway /\ UserInit /\ NoSlotCall /\ SanitizeInit /\ NoBatch

NextSanitize ==
  \/ StripSignature /\ UNCHANGED <<gwVars, userVars, slotVars, batchVars>>
  \/ StripOpeningFence /\ UNCHANGED <<gwVars, userVars, slotVars, batchVars>>
  \/ StripClosingFence /\ UNCHANGED <<gwVars, userVars, slotVars, batchVars>>
  \/ DedupGreetings /\ UNCHANGED <<gwVars, userVars, slotVars, batchVars>>
  \/ SanitizeAgain /\ UNCHANGED <<gwVars, userVars, slotVars, batchVars>>

SpecSanitize == InitSanitize /\ [][NextSanitize]_vars

\* the loops over the unread messages
InitBatch == NoGateway /\ UserInit /\ NoSlotCall /\ NoSanitizeCall /\ BatchInit

NextBatch ==
  \/ \E ok \in BOOLEAN : FetchEmail(ok) /\ UNCHANGED <<gwVars, userVars, slotVars, sanVars>>
  \/ \E ok \in BOOLEAN : FetchMessage(ok) /\ UNCHANGED <<gwVars, userVars, slotVars, sanVars>>
  \/ \E ok \in BOOLEAN : FetchCalendar(ok) /\ UNCHANGED <<gwVars, userVars, slotVars, sanVars>>
  \/ \E b \in Services, reply \in Replies :
       Generate(b, reply) /\ UNCHANGED <<gwVars, userVars, slotVars, sanVars>>
  \/ \E ok \in BOOLEAN : PostDraft(ok) /\ UNCHANGED <<gwVars, userVars, slotVars, sanVars>>
  \/ \E ok \in BOOLEAN : CreateDraft(ok) /\ UNCHANGED <<gwVars, userVars, slotVars, sanVars>>
  \/ \E ok \in BOOLEAN : MarkRead(ok) /\ UNCHANGED <<gwVars, userVars, slotVars, sanVars>>

SpecBatch == InitBatch /\ [][NextBatch]_vars

(***************************************************************************)
(* The gateway's contract                                                  *)
(***************************************************************************)
Last(q) == q[Len(q)]
SelfManaged == ~user_provided_token

\* C1: with the default budget of 1 and a self-managed credential, a call
\* answered 401 on its first and on its retried attempt has invoked renewal
\* exactly once, has sent exactly two attempts and has returned None; no call
\* with that budget ever sends a third attempt.
C1_SingleRetryCeiling ==
  \A c \in Callers :
    (SelfManaged /\ frame[c].budget = DefaultRetries) =>
      /\ frame[c].attempts <= 2
      /\ (Len(frame[c].resps) >= 2
            /\ frame[c].resps[1] = "401" /\ frame[c].resps[2] = "401") =>
           /\ frame[c].pc = "done"
           /\ frame[c].result = "None"
           /\ frame[c].renewals = 1
           /\ frame[c].attempts = 2

C1_Witness ==
  \E c \in Callers :
    /\ SelfManaged /\ frame[c].budget = DefaultRetries
    /\ frame[c].resps = <<"401", "401">>
    /\ frame[c].pc = "done"

\* C2: on a gateway built with a caller-supplied token, a request whose first
\* attempt is answered 401 returns None at once: no renewal, no second attempt.
C2_ForeignTokenNeverRenewed ==
  \A c \in Callers :
    (user_provided_token /\ Len(frame[c].resps) >= 1 /\ frame[c].resps[1] = "401") =>
      /\ frame[c].pc = "done"
      /\ frame[c].result = "None"
      /\ frame[c].renewals = 0
      /\ frame[c].attempts = 1

C2_Witness ==
  \E c \in Callers :
    /\ user_provided_token
    /\ frame[c].budget > 0
    /\ frame[c].resps = <<"401">>
    /\ frame[c].pc = "done"

\* C3: every provider call whose first attempt is answered 401 on a
\* self-managed credential renews the credential and sends a second attempt,
\* the calls of user.py (credential from get_access_token) included.
C3_EveryCallRecovers ==
  /\ \A c \in Callers :
       (SelfManaged /\ frame[c].budget > 0 /\ frame[c].pc = "done"
          /\ Len(frame[c].resps) >= 1 /\ frame[c].resps[1] = "401"
          /\ ~frame[c].renewFailed) =>
         (frame[c].renewals >= 1 /\ frame[c].attempts >= 2)
  /\ (uop.pc = "done" /\ Len(uop.resps) >= 1 /\ uop.resps[1] = "401") =>
       (uop.renewals >= 1 /\ uop.attempts >= 2)

\* C4: an attempt that ends in a non-401 HTTP error status or in a transport
\* exception makes request return None: the call is over (no further attempt
\* is sent), no renewal is invoked and self.token is what it was.
C4_OtherErrorsFail ==
  [][\A c \in Callers :
       (/\ frame[c].pc = "wait"
        /\ Len(frame'[c].resps) = Len(frame[c].resps) + 1
        /\ Last(frame'[c].resps) \in {"500", "transport"}) =>
         /\ frame'[c].pc = "done"
         /\ frame'[c].result = "None"
         /\ frame'[c].attempts = frame[c].attempts
         /\ frame'[c].renewals = frame[c].renewals
         /\ issued' = issued
         /\ token' = token]_vars

C4_Witness ==
  \E c \in Callers :
    /\ Len(frame[c].resps) = 2
    /\ frame[c].resps[1] = "401"
    /\ frame[c].resps[2] \in {"500", "transport"}
    /\ frame[c].budget = MaxRetries
    /\ frame[c].pc = "done"

\* C5: every attempt carries "Bearer" + the token stored when it is sent,
\* whatever Authorization entry the caller's dict held, and the attempt sent
\* after a renewal carries the renewed token, not the one sent before it.
C5_BearerOfStoredToken ==
  \A c \in Callers :
    \A i \in 1..Len(frame[c].sent) :
      /\ frame[c].sent[i] = Bearer(frame[c].stored[i])
      /\ i > 1 => frame[c].sent[i] # frame[c].sent[i - 1]

C5_Witness ==
  \E c \in Callers :
    /\ frame[c].callerAuth # NoAuth
    /\ Len(frame[c].sent) = 2
    /\ frame[c].callerAuth # frame[c].sent[1]
    /\ frame[c].callerAuth # frame[c].sent[2]

\* C6: when the renewal that a 401 triggers fails, the request ends in an
\* exception raised to its caller; no attempt is sent after the failure and
\* renewal is not invoked again.
C6_RenewalFailureSurfaces ==
  \A c \in Callers :
    frame[c].renewFailed =>
      /\ frame[c].pc = "done"
      /\ frame[c].result = "raised"
      /\ frame[c].attempts = Len(frame[c].resps)
      /\ frame[c].renewals = Len(frame[c].resps)
      /\ Last(frame[c].resps) = "401"

C6_Witness ==
  \E c \in Callers :
    frame[c].renewFailed /\ frame[c].budget = MaxRetries /\ frame[c].attempts = 2

\* C7: a request that starts after a renewal has replaced a token never sends
\* the replaced token in its first attempt, however the callers interleave.
C7_FirstAttemptSendsRenewed ==
  \A c \in Callers :
    Len(frame[c].sent) >= 1 =>
      \A t \in frame[c].stale : frame[c].sent[1] # Bearer(t)

\* C20: on a gateway built with a caller-supplied token, self.token is that
\* token after any sequence of request, get_token and renew_token.
C20_ForeignTokenKept ==
  user_provided_token => token = 0

\* the bounds that the budget puts on a call
BudgetBounds ==
  \A c \in Callers :
    /\ frame[c].attempts <= frame[c].budget + 1
    /\ frame[c].renewals <= frame[c].budget
    /\ frame[c].retries >= 0
    /\ frame[c].pc = "wait" =>
         frame[c].retries = frame[c].budget - (frame[c].attempts - 1)
    /\ (frame[c].pc = "done" /\ frame[c].retries = 0
          /\ frame[c].resps # <<>> /\ Last(frame[c].resps) = "401") =>
         /\ frame[c].result = "None"
         /\ frame[c].renewals = frame[c].attempts - 1

\* C25: for every budget n >= 0 and every sequence of answers a call of
\* request sends at most n + 1 attempts and renews at most n times; every
\* retry runs with a budget one lower than the attempt before it; a 401 met
\* with budget 0 makes the call return None without a renewal; and the call
\* comes to its end.
C25_BudgetTerminates ==
  /\ []BudgetBounds
  /\ \A c \in Callers :
       (frame[c].pc \notin {"idle", "done"}) ~> (frame[c].pc = "done")

C25_Witness ==
  \E c \in Callers :
    /\ SelfManaged /\ frame[c].budget = MaxRetries
    /\ frame[c].pc = "done" /\ frame[c].result = "None"
    /\ frame[c].attempts = MaxRetries + 1
    /\ frame[c].renewals = MaxRetries
    /\ Last(frame[c].resps) = "401"

(***************************************************************************)
(* The availability engine's contract                                      *)
(***************************************************************************)
SlotIndices == 1..Len(available_slots)
EventIndices == 1..Len(events)

\* the busy interval e, taken with its end points, meets the open span (a, b)
Meets(e, a, b) == e.start < b /\ e.end > a

\* the instant t belongs to some busy interval
BusyAt(t) == \E i \in EventIndices : events[i].start <= t /\ t <= events[i].end

\* the maximal spans of the working hours of day d that no busy interval meets
MaximalGaps(d) ==
  LET lo == At(d, start_hour, 0)
      hi == At(d, end_hour, 0)
      pts == {lo, hi} \cup {events[i].start : i \in EventIndices}
                      \cup {events[i].end : i \in EventIndices}
  IN {g \in pts \X pts :
        /\ lo <= g[1] /\ g[1] < g[2] /\ g[2] <= hi
        /\ g[1] = lo \/ BusyAt(g[1])
        /\ g[2] = hi \/ BusyAt(g[2])
        /\ \A i \in EventIndices : ~Meets(events[i], g[1], g[2])}

\* the busy intervals lie inside the working hours of day d and no two of
\* them overlap
InsideWindow(d) ==
  \A i \in EventIndices :
    At(d, start_hour, 0) <= events[i].start /\ events[i].end <= At(d, end_hour, 0)

NonOverlapping ==
  \A i, j \in EventIndices :
    i # j => (events[i].end <= events[j].start \/ events[j].end <= events[i].start)

OneWorkingDay ==
  /\ epc = "done" /\ days_ahead = 1 /\ ~IsWeekend(0)
  /\ now < At(0, start_hour, 0)
  /\ InsideWindow(0) /\ NonOverlapping

TheExample ==
  /\ events = <<Interval(At(0, 10, 0), At(0, 10, 30)),
                Interval(At(0, 14, 0), At(0, 15, 0))>>
  /\ min_duration_minutes = 30

\* C8: for one working day, now before its start, and busy intervals inside
\* the working hours that do not overlap, the slots returned are exactly the
\* maximal gaps of at least min_duration_minutes, each once, none of them
\* meeting a busy interval; the example of 10:00-10:30 and 14:00-15:00 gives
\* 09:00-10:00 (60), 10:30-14:00 (210) and 15:00-17:00 (120).
C8_SlotsAreTheGaps ==
  OneWorkingDay =>
    /\ {<<available_slots[i].start, available_slots[i].end>> : i \in SlotIndices}
         = {g \in MaximalGaps(0) : g[2] - g[1] >= min_duration_minutes}
    /\ \A i, j \in SlotIndices :
         i # j => available_slots[i] # available_slots[j]
    /\ \A i \in SlotIndices :
         available_slots[i].duration_minutes
           = available_slots[i].end - available_slots[i].start
    /\ \A i \in SlotIndices : \A k \in EventIndices :
         ~Meets(events[k], available_slots[i].start, available_slots[i].end)
    /\ TheExample =>
         available_slots =
           <<[start |-> At(0, 9, 0), end |-> At(0, 10, 0), duration_minutes |-> 60],
             [start |-> At(0, 10, 30), end |-> At(0, 14, 0), duration_minutes |-> 210],
             [start |-> At(0, 15, 0), end |-> At(0, 17, 0), duration_minutes |-> 120]>>

C8_Witness == OneWorkingDay /\ TheExample /\ Len(available_slots) = 3

\* C9: every slot lies inside the working hours of the day it starts on.
C9_SlotsInsideWorkingHours ==
  \A i \in SlotIndices :
    LET d == DateOf(available_slots[i].start)
    IN /\ At(d, start_hour, 0) <= available_slots[i].start
       /\ available_slots[i].end <= At(d, end_hour, 0)

\* C10: the slots are in strictly ascending order of their start.
C10_AscendingStarts ==
  \A i, j \in SlotIndices :
    i < j => available_slots[i].start < available_slots[j].start

C10_Witness ==
  /\ epc = "done"
  /\ Len(events) >= 1
  /\ Len(available_slots) >= 3
  /\ DateOf(available_slots[1].start) = DateOf(available_slots[2].start)
  /\ DateOf(available_slots[2].start) < DateOf(available_slots[3].start)

\* the days the loop does not skip
Processed(d) == d < days_ahead /\ ~IsWeekend(d) /\ ~(now > DayEnd(d))

\* the slots that start on day d, in the order returned
SlotsOn(d) == SelectSeq(available_slots, LAMBDA s : DateOf(s.start) = d)

\* the positions of the busy intervals that start on day d
EventsOn(d) == {i \in EventIndices : DateOf(events[i].start) = d}

\* C11: no slot starts before now; in particular, when now is past today's
\* dayEnd no slot of today is returned.
C11_NoSlotInThePast ==
  /\ \A i \in SlotIndices : available_slots[i].start >= now
  /\ now > DayEnd(0) => SlotsOn(0) = <<>>

\* C12: every slot has duration_minutes = end - start, at least
\* min_duration_minutes; the threshold is inclusive: a gap of exactly
\* min_duration_minutes before the day's first busy interval, or between the
\* last busy interval and dayEnd, is returned.
C12_DurationInclusive ==
  /\ \A i \in SlotIndices :
       /\ available_slots[i].duration_minutes
            = available_slots[i].end - available_slots[i].start
       /\ available_slots[i].duration_minutes >= min_duration_minutes
  /\ epc = "done" =>
       \A d \in 0..(days_ahead - 1) :
         Processed(d) =>
           LET from == IF now > At(d, start_hour, 0) /\ now < At(d, end_hour, 0)
                         THEN now ELSE At(d, start_hour, 0)
               until == At(d, end_hour, 0)
           IN /\ \A i \in EventsOn(d) :
                   (/\ \A k \in EventsOn(d) : events[i].start <= events[k].start
                    /\ events[i].start - from = min_duration_minutes) =>
                     \E j \in SlotIndices :
                       /\ available_slots[j].start = from
                       /\ available_slots[j].end = events[i].start
              /\ \A i \in EventsOn(d) :
                   (/\ \A k \in EventsOn(d) : events[k].end <= events[i].end
                    /\ events[i].end >= from
                    /\ until - events[i].end = min_duration_minutes) =>
                     \E j \in SlotIndices :
                       /\ available_slots[j].start = events[i].end
                       /\ available_slots[j].end = until

C12_Witness ==
  /\ epc = "done" /\ Len(events) >= 1
  /\ \E i, j \in SlotIndices :
       /\ i # j
       /\ available_slots[i].duration_minutes = min_duration_minutes
       /\ available_slots[j].duration_minutes = min_duration_minutes
       /\ available_slots[i].end = events[1].start
       /\ available_slots[j].end = At(0, end_hour, 0)

\* C13: no slot starts on a Saturday or a Sunday, whatever the first day, the
\* horizon and the busy intervals, those running from Friday into the weekend
\* included.
C13_NoWeekendSlot ==
  \A i \in SlotIndices :
    (weekday0 + DateOf(available_slots[i].start)) % 7 \notin {5, 6}

C13_Witness ==
  /\ epc = "done" /\ weekday0 = 4 /\ days_ahead = 2
  /\ Len(events) = 1
  /\ DateOf(events[1].start) = 0 /\ DateOf(events[1].end) = 1
  /\ Len(available_slots) >= 1

\* C14: a working day that the loop processes and that has no busy interval
\* gets exactly one slot, from dayStart (from now when now lies inside the
\* working hours [dayStart, dayEnd]) to dayEnd, if that span is at least
\* min_duration_minutes, and no slot otherwise; working hours 9-17, 30
\* minutes, one day ahead and now before 09:00 give the single slot
\* 09:00-17:00 of 480 minutes.
C14_FreeDayOneSlot ==
  epc = "done" =>
    \A d \in 0..(days_ahead - 1) :
      (Processed(d) /\ EventsOn(d) = {}) =>
        LET lo == At(d, start_hour, 0)
            hi == At(d, end_hour, 0)
            from == IF lo <= now /\ now <= hi THEN now ELSE lo
        IN SlotsOn(d) = IF hi - from >= min_duration_minutes
                          THEN <<[start |-> from, end |-> hi,
                                  duration_minutes |-> hi - from]>>
                          ELSE <<>>

\* C21: no slot returned intersects a busy interval of the input, whether the
\* busy intervals overlap, lie inside one another or run from one day into a
\* later one; in particular no slot begins or ends inside a busy interval, as
\* a cursor that went back or a slot added for a nested interval would make it.
C21_SlotsAvoidBusy ==
  \A i \in SlotIndices : \A k \in EventIndices :
    ~Meets(events[k], available_slots[i].start, available_slots[i].end)

(***************************************************************************)
(* The sanitizer's contract                                                *)
(***************************************************************************)
\* the positions of raw where a line that begins with two dashes starts
DashLines == {i \in 1..(Len(raw) - 1) :
                LineStart(raw, i) /\ raw[i] = "-" /\ raw[i + 1] = "-"}

\* the positions of raw that hold a fence
Fences == {i \in 1..Len(raw) : raw[i] \in {"fence-email", "fence"}}

\* the lines of raw, and those of them that match the greeting pattern
RawLines == SplitLines(raw)
GreetingLines == {i \in 1..Len(RawLines) :
                    RawLines[i] # <<>> /\ RawLines[i][1] = "Hi"}

\* C15: when the text has a line that begins with two or more dashes, that
\* line and everything after it is gone from what sanitize_response returns
\* and what came before it is kept: nothing of the text from the first such
\* line on is returned, and without fences and greeting lines the result is
\* the text before that line (with or without the newline that ended it).
C15_SignatureCut ==
  (applied >= 1 /\ DashLines # {}) =>
    LET s == CHOOSE i \in DashLines : \A k \in DashLines : i <= k
        before == SubSeq(raw, 1, s - 1)
    IN /\ Len(once) <= Len(before)
       /\ (Fences = {} /\ GreetingLines = {}) =>
            once \in {before, SubSeq(raw, 1, s - 2)}

\* C16: sanitize_response applied to its own result returns that result, for
\* every text with at most one line that begins with two dashes and at most
\* one fence, greeting lines or not.
C16_Idempotent ==
  (applied = 2 /\ spc = "returned"
     /\ Cardinality(DashLines) <= 1 /\ Cardinality(Fences) <= 1) =>
    text = once

\* C17: for a text without a line that begins with two dashes and without
\* fences, with two or more greeting lines, the lines returned are the lines
\* of the text, in order and unchanged, without the greeting lines after the
\* first; exactly one greeting line is returned.
C17_FirstGreetingOnly ==
  (applied >= 1 /\ DashLines = {} /\ Fences = {}
     /\ Cardinality(GreetingLines) >= 2) =>
    LET first == CHOOSE i \in GreetingLines : \A k \in GreetingLines : i <= k
        kept == {i \in 1..Len(RawLines) : i \notin GreetingLines \/ i = first}
        nth(j) == CHOOSE i \in kept : Cardinality({k \in kept : k <= i}) = j
        out == SplitLines(once)
    IN /\ out = [j \in 1..Cardinality(kept) |-> RawLines[nth(j)]]
       /\ Cardinality({j \in 1..Len(out) : out[j] # <<>> /\ out[j][1] = "Hi"}) = 1

C17_Witness ==
  /\ applied >= 1 /\ DashLines = {} /\ Fences = {}
  /\ Len(RawLines) = 3
  /\ GreetingLines = {1, 2}
  /\ RawLines[3] # <<>>
  /\ Len(SplitLines(once)) = 2

(***************************************************************************)
(* The contract of the batch loops and of the generation call              *)
(***************************************************************************)
\* C18: when the processing of one message fails, every later message of the
\* batch is still processed: once the loop is over, the processing of every
\* message after a failed one has begun.
C18_BatchGoesOn ==
  bpc = "end" =>
    \A i \in failed : \A j \in (i + 1)..emails : j \in reached

\* what the caller of a generation call can tell a failure by: the class of
\* the exception raised to it and its message
Signal(outcome) == <<outcome.kind, outcome.type, outcome.message>>

\* C19: a generate_text call whose request times out ends in a failure (it
\* neither hangs nor returns text) that its caller can tell from the failure
\* of a call answered with an HTTP error status or refused.
C19_TimeoutDistinct ==
  (generation # <<>> /\ generation[1].call = "generate_text"
     /\ generation[1].service = "timeout") =>
    /\ generation[1].outcome.kind = "raised"
    /\ \A b \in {"http_error", "refused"} :
         Signal(generation[1].outcome) # Signal(generate_text(b, <<>>))

\* the forms in which the sanitizer's output for the answer raw may be posted:
\* as it is or with its newlines rendered as <br>, the answer stripped of the
\* blanks around it or not
Sanitized(r) ==
  {sanitize_response(r), Br(sanitize_response(r)),
   sanitize_response(Strip(r)), Br(sanitize_response(Strip(r)))}

\* C22: whichever path creates a draft (generate_draft_response, main,
\* index), the body posted is the sanitizer's output for the Generation
\* Service's answer; the answer is never posted unsanitized.
C22_BodySanitized ==
  posted # <<>> => posted[1].body \in Sanitized(posted[1].raw)

\* C23: when a gateway call of generate_draft_response fails (message fetch,
\* calendar fetch or draft post), the method reports failure and no draft is
\* posted; a failed calendar fetch is not taken for an empty calendar.
C23_FailureSurfaced ==
  (program = "generate_draft_response" /\ bpc = "end"
     /\ (failed # {} \/ (calendar # <<>> /\ ~calendar[1].fetched))) =>
    /\ returned \in {"None", "raised"}
    /\ posted = <<>>

\* C24: in main a message is marked as read only after its draft has been
\* created: mark_user_email_as_read is called for a message whose
\* create_email_draft succeeded, and a message whose generation or draft
\* creation failed is never marked.
C24_MarkAfterDraft ==
  program = "main" =>
    /\ bpc = "mark" => email \in drafted
    /\ marked \subseteq drafted
    /\ \A m \in failed : m \notin drafted => m \notin marked

C24_Witness ==
  /\ program = "main" /\ bpc = "end"
  /\ marked = {1, 2}
  /\ failed = {3} /\ 3 \notin drafted
  /\ generation[1].service = "text"

=============================================================================
